---- MODULE Spec2Model ----
(***************************************************************************)
(* GetWeatherTool.forward (src/tools/find_weather.py) as a state machine.  *)
(*                                                                         *)
(* One invocation of forward is followed statement by statement: the       *)
(* import guard, the credential check, requests.get, raise_for_status,     *)
(* response.json(), the "cod" check, the field extraction, the formatting  *)
(* with truncate_content, and the three except clauses.  The environment   *)
(* (importability of the libraries, the environment variable, the          *)
(* transport outcome, the response status and body, the version of the     *)
(* HTTP library) is chosen nondeterministically.  Strings are TLA+ strings *)
(* and are built, capitalised and truncated as the Python code does it.    *)
(***************************************************************************)
EXTENDS Integers, Sequences, FiniteSets, TLC

VARIABLES
    location,      \* the argument of forward
    env_key,       \* value of OPENWEATHER_API_KEY in the process environment
    importable,    \* the modules the import statements of forward can load
    pc,            \* position of forward
    api_key,       \* local api_key
    sent,          \* the outbound HTTP requests issued so far, in order
    response,      \* local response (status code and body)
    decoded,       \* TRUE once response.json() has been called
    data,          \* local data
    fields,        \* locals city_name, country, description, temp, ...
    exc,           \* the exception in flight / raised
    outcome,       \* "running", "returned" or "raised"
    branch,        \* which return statement produced ret
    ret            \* the returned string

vars == <<location, env_key, importable, pc, api_key, sent, response, decoded,
          data, fields, exc, outcome, branch, ret>>

(***************************************************************************)
(* Bounds of the model.                                                    *)
(***************************************************************************)
\* long descriptions make reports of MAX_LENGTH - 1 .. MAX_LENGTH - 1 + MaxOver characters
MaxOver == 2

(***************************************************************************)
(* Program constants.                                                      *)
(***************************************************************************)
MAX_LENGTH == 10000        \* truncate_content(output, 10000)
TIMEOUT == 10              \* requests.get(..., timeout=10)
SUCCESS_COD == 200         \* data.get("cod") != 200

ENDPOINT == "https://api.openweathermap.org/data/2.5/weather"

CredentialMessage ==
    "Error: OpenWeatherMap API key not found. "
    \o "Please set the OPENWEATHER_API_KEY environment variable."

TimeoutMessage == "The request timed out. Please try again later."

\* the source sets requests and the pip command in backquotes, which a TLA+
\* string cannot hold
ImportMessage ==
    "You must install requests to run this tool (e.g., pip install requests)."

(***************************************************************************)
(* Python values: None, str, int, float (by its repr), list, dict.         *)
(***************************************************************************)
PyNone == [t |-> "NoneType"]
PyStr(s) == [t |-> "str", s |-> s]
PyInt(n) == [t |-> "int", n |-> n]
PyFloat(r) == [t |-> "float", repr |-> r]
PyList(l) == [t |-> "list", l |-> l]
PyDict(d) == [t |-> "dict", d |-> d]

EmptyDict == PyDict(<<>>)

Digit(d) == SubSeq("0123456789", d + 1, d + 1)

RECURSIVE NatToStr(_)
NatToStr(n) == IF n < 10 THEN Digit(n) ELSE NatToStr(n \div 10) \o Digit(n % 10)

IntToStr(n) == IF n < 0 THEN "-" \o NatToStr(0 - n) ELSE NatToStr(n)

\* str(v), as an f-string placeholder renders v
Str(v) ==
    CASE v.t = "str" -> v.s
      [] v.t = "int" -> IntToStr(v.n)
      [] v.t = "float" -> v.repr
      [] v.t = "NoneType" -> "None"
      [] OTHER -> "<" \o v.t \o ">"

\* bool(v)
Truthy(v) ==
    CASE v.t = "str" -> v.s # ""
      [] v.t = "int" -> v.n # 0
      [] v.t = "float" -> TRUE
      [] v.t = "NoneType" -> FALSE
      [] v.t = "list" -> Len(v.l) > 0
      [] v.t = "dict" -> DOMAIN v.d # {}

\* v == n for an int literal n
EqInt(v, n) == v.t = "int" /\ v.n = n

\* d.get(k, default) on a dict value d
DictGet(d, k, default) == IF k \in DOMAIN d.d THEN d.d[k] ELSE default

(***************************************************************************)
(* str.capitalize(): first character upper case, the rest lower case.      *)
(***************************************************************************)
ToUpper ==
    [c \in {"a","b","c","d","e","f","g","h","i","j","k","l","m","n","o","p","q",
            "r","s","t","u","v","w","x","y","z"} |->
        CASE c = "a" -> "A" [] c = "b" -> "B" [] c = "c" -> "C" [] c = "d" -> "D"
          [] c = "e" -> "E" [] c = "f" -> "F" [] c = "g" -> "G" [] c = "h" -> "H"
          [] c = "i" -> "I" [] c = "j" -> "J" [] c = "k" -> "K" [] c = "l" -> "L"
          [] c = "m" -> "M" [] c = "n" -> "N" [] c = "o" -> "O" [] c = "p" -> "P"
          [] c = "q" -> "Q" [] c = "r" -> "R" [] c = "s" -> "S" [] c = "t" -> "T"
          [] c = "u" -> "U" [] c = "v" -> "V" [] c = "w" -> "W" [] c = "x" -> "X"
          [] c = "y" -> "Y" [] c = "z" -> "Z"]

ToLower ==
    [c \in {ToUpper[x] : x \in DOMAIN ToUpper} |->
        CHOOSE x \in DOMAIN ToUpper : ToUpper[x] = c]

UpperChar(c) == IF c \in DOMAIN ToUpper THEN ToUpper[c] ELSE c
LowerChar(c) == IF c \in DOMAIN ToLower THEN ToLower[c] ELSE c

RECURSIVE LowerStr(_)
LowerStr(s) ==
    IF Len(s) = 0 THEN ""
    ELSE IF Len(s) = 1 THEN LowerChar(s)
    ELSE LET h == Len(s) \div 2
         IN  LowerStr(SubSeq(s, 1, h)) \o LowerStr(SubSeq(s, h + 1, Len(s)))

Capitalize(s) ==
    IF Len(s) = 0 THEN ""
    ELSE UpperChar(SubSeq(s, 1, 1)) \o LowerStr(SubSeq(s, 2, Len(s)))

(***************************************************************************)
(* smolagents.utils.truncate_content, as the library defines it:          *)
(*   if len(content) <= max_length: return content                         *)
(*   return content[: max_length // 2]                                     *)
(*        + f"\n..._This content has been truncated to stay below          *)
(*             {max_length} characters_...\n"                              *)
(*        + content[-max_length // 2 :]                                    *)
(***************************************************************************)
TruncationMarker(max_length) ==
    "\n..._This content has been truncated to stay below "
    \o IntToStr(max_length) \o " characters_...\n"

truncate_content(content, max_length) ==
    IF Len(content) <= max_length THEN content
    ELSE LET head == SubSeq(content, 1, max_length \div 2)
             from == (0 - max_length) \div 2      \* the negative slice index
             tail == SubSeq(content, Len(content) + from + 1, Len(content))
         IN  head \o TruncationMarker(max_length) \o tail

(***************************************************************************)
(* Exceptions: a class and the text str(e) gives.  Bases is the class      *)
(* hierarchy an except clause matches against.                             *)
(***************************************************************************)
Exc(cls, text) == [cls |-> cls, text |-> text]
NoExc == Exc("none", "")

Bases(cls) ==
    CASE cls = "ConnectTimeout" ->
            {"ConnectTimeout", "Timeout", "ConnectionError", "RequestException", "Exception"}
      [] cls = "ReadTimeout" -> {"ReadTimeout", "Timeout", "RequestException", "Exception"}
      [] cls = "ConnectionError" -> {"ConnectionError", "RequestException", "Exception"}
      [] cls = "HTTPError" -> {"HTTPError", "RequestException", "Exception"}
      \* requests >= 2.27: Response.json() raises requests.exceptions.JSONDecodeError
      [] cls = "requests.JSONDecodeError" ->
            {"requests.JSONDecodeError", "InvalidJSONError", "RequestException",
             "ValueError", "Exception"}
      \* requests < 2.27: Response.json() raises the error of the json module
      [] cls = "json.JSONDecodeError" -> {"json.JSONDecodeError", "ValueError", "Exception"}
      [] OTHER -> {cls, "Exception"}

IsInstance(e, cls) == cls \in Bases(e.cls)

(***************************************************************************)
(* The environment: arguments, credential values, transport outcomes,      *)
(* response bodies.                                                        *)
(***************************************************************************)
Locations == {"London,UK", ""}

\* os.getenv gives None for an unset variable
EnvKeys == {PyNone, PyStr(""), PyStr("k3y")}

Modules == {"requests", "smolagents.utils"}

TransportErrors ==
    { Exc("ConnectTimeout", "Connection to api.openweathermap.org timed out."),
      Exc("ReadTimeout", "Read timed out. (read timeout=" \o IntToStr(TIMEOUT) \o ")"),
      Exc("ConnectionError", "Failed to resolve 'api.openweathermap.org'") }

StatusCodes == {200, 404, 500}

Opt(key, choices) == {<<>>} \cup {key :> v : v \in choices}

Full(description) ==
    PyDict( "cod" :> PyInt(SUCCESS_COD)
         @@ "name" :> PyStr("London")
         @@ "sys" :> PyDict("country" :> PyStr("GB"))
         @@ "weather" :> PyList(<<PyDict("description" :> PyStr(description))>>)
         @@ "main" :> PyDict("temp" :> PyFloat("15.5") @@ "feels_like" :> PyFloat("14.0")
                              @@ "humidity" :> PyInt(80))
         @@ "wind" :> PyDict("speed" :> PyFloat("3.2")) )

RECURSIVE Repeat(_, _)
Repeat(s, n) ==
    IF n <= 0 THEN ""
    ELSE IF n = 1 THEN s
    ELSE Repeat(s, n \div 2) \o Repeat(s, n - n \div 2)

(***************************************************************************)
(* The statements of forward that compute values.                          *)
(***************************************************************************)
\* params of the GET request
Request(loc, key) ==
    [url |-> ENDPOINT, q |-> loc, appid |-> Str(key), units |-> "metric",
     timeout |-> TIMEOUT]

\* not api_key
KeyMissing(key) == ~Truthy(key)

\* response.raise_for_status(): HTTPError for a 4xx or 5xx status
StatusError(status) ==
    IF status >= 400 /\ status < 500
    THEN Exc("HTTPError", IntToStr(status) \o " Client Error")
    ELSE IF status >= 500 /\ status < 600
    THEN Exc("HTTPError", IntToStr(status) \o " Server Error")
    ELSE NoExc

\* the error Response.json() raises on a body that is no JSON document; its
\* class depends on the version of requests that is installed
DecodeErrors ==
    { Exc(cls, "Expecting value: line 1 column 1 (char 0)") :
        cls \in {"requests.JSONDecodeError", "json.JSONDecodeError"} }

NoAttribute(v, attr) ==
    Exc("AttributeError", "'" \o v.t \o "' object has no attribute '" \o attr \o "'")

\* data.get("cod") != 200
IsProviderErrorLoose(d) ==
    LET cod == DictGet(d, "cod", PyNone)
    IN  ~(EqInt(cod, SUCCESS_COD) \/ (cod.t = "str" /\ cod.s = IntToStr(SUCCESS_COD)))

IsProviderError(d) == ~EqInt(DictGet(d, "cod", PyNone), SUCCESS_COD)

\* f"Error fetching weather data: {message}"
ProviderMessage(d) ==
    "Error fetching weather data: "
    \o Str(DictGet(d, "message", PyStr("Unknown error occurred.")))

NoFields ==
    [city_name |-> PyNone, country |-> PyNone, description |-> PyNone,
     temp |-> PyNone, feels_like |-> PyNone, humidity |-> PyNone,
     wind_speed |-> PyNone]

\* The field extraction: the exception of the first statement that raises, or
\* the locals.  (The payloads of the model hold a list, or nothing, under
\* "weather".)
Extract(d) ==
    LET city_name == DictGet(d, "name", PyStr("Unknown location"))
        sys_info == DictGet(d, "sys", EmptyDict)
        weather_list == DictGet(d, "weather", PyList(<<EmptyDict>>))
        main_info == DictGet(d, "main", EmptyDict)
        wind_info == DictGet(d, "wind", EmptyDict)
        Fail(e) == [exc |-> e, fields |-> NoFields]
    IN  IF sys_info.t # "dict" THEN Fail(NoAttribute(sys_info, "get"))
        ELSE IF weather_list.t # "list"
        THEN Fail(Exc("TypeError", "'" \o weather_list.t \o "' object is not subscriptable"))
        ELSE IF Len(weather_list.l) = 0
        THEN Fail(Exc("IndexError", "list index out of range"))
        ELSE LET weather == weather_list.l[1]
             IN  IF weather.t # "dict" THEN Fail(NoAttribute(weather, "get"))
                 ELSE IF main_info.t # "dict" THEN Fail(NoAttribute(main_info, "get"))
                 ELSE IF wind_info.t # "dict" THEN Fail(NoAttribute(wind_info, "get"))
                 ELSE [exc |-> NoExc,
                       fields |->
                         [city_name |-> city_name,
                          country |-> DictGet(sys_info, "country", PyStr("")),
                          description |->
                              DictGet(weather, "description", PyStr("No description")),
                          temp |-> DictGet(main_info, "temp", PyNone),
                          feels_like |-> DictGet(main_info, "feels_like", PyNone),
                          humidity |-> DictGet(main_info, "humidity", PyNone),
                          wind_speed |-> DictGet(wind_info, "speed", PyNone)]]

\* the f-string of the report, without the capitalisation of the description
FormatOutputNoCapitalize(f) ==
    "**Weather in " \o Str(f.city_name) \o ", "
        \o (IF Truthy(f.country) THEN Str(f.country) ELSE "N/A") \o "**\n\n"
    \o "- Description: " \o f.description.s \o "\n"
    \o "- Temperature: " \o Str(f.temp) \o "°C (feels like " \o Str(f.feels_like) \o "°C)\n"
    \o "- Humidity: " \o Str(f.humidity) \o "%\n"
    \o "- Wind Speed: " \o Str(f.wind_speed) \o " m/s"

\* the f-string of the report (f.description is a str)
FormatOutput(f) ==
    "**Weather in " \o Str(f.city_name) \o ", "
        \o (IF Truthy(f.country) THEN Str(f.country) ELSE "N/A") \o "**\n\n"
    \o "- Description: " \o Capitalize(f.description.s) \o "\n"
    \o "- Temperature: " \o Str(f.temp) \o "°C (feels like " \o Str(f.feels_like) \o "°C)\n"
    \o "- Humidity: " \o Str(f.humidity) \o "%\n"
    \o "- Wind Speed: " \o Str(f.wind_speed) \o " m/s"

\* the except clauses, general handler first
HandlerGeneralFirst(e) ==
    IF IsInstance(e, "RequestException") THEN "RequestException"
    ELSE IF IsInstance(e, "Timeout") THEN "Timeout"
    ELSE "Exception"

\* the except clause that catches e: the first, in source order, that matches
Handler(e) ==
    IF IsInstance(e, "Timeout") THEN "Timeout"
    ELSE IF IsInstance(e, "RequestException") THEN "RequestException"
    ELSE "Exception"

HandlerMessageNoText(h, e) ==
    CASE h = "Timeout" -> TimeoutMessage
      [] h = "RequestException" -> "Error fetching weather data: "
      [] OTHER -> "An unexpected error occurred: " \o e.text

\* the string the except clause h returns
HandlerMessage(h, e) ==
    CASE h = "Timeout" -> TimeoutMessage
      [] h = "RequestException" -> "Error fetching weather data: " \o e.text
      [] OTHER -> "An unexpected error occurred: " \o e.text

AfterHandlerRetry(h) == IF h = "Timeout" THEN "get" ELSE "done"

\* every except clause returns: forward is over
AfterHandler(h) == "done"

(***************************************************************************)
(* Response bodies the provider (or anything between) can send.            *)
(***************************************************************************)
\* fixed part of the report of the payload Full(d): its length without d
Overhead == Len(FormatOutput(Extract(Full("")).fields))

\* descriptions that put the report of Full(d) just below, at and above MAX_LENGTH
LongDescriptions ==
    {Repeat("x", MAX_LENGTH - 1 + k - Overhead) : k \in 0..MaxOver}

Descriptions ==
    {PyNone} \cup {PyStr(s) : s \in {"light rain", "LIGHT Rain", ""} \cup LongDescriptions}

SuccessPayloads ==
    { PyDict(("cod" :> PyInt(SUCCESS_COD)) @@ n @@ s @@ w @@ m @@ wi) :
        n \in Opt("name", {PyStr("London"), PyStr("")}),
        s \in Opt("sys", {EmptyDict, PyDict("country" :> PyStr("GB")),
                          PyDict("country" :> PyStr(""))}),
        w \in Opt("weather",
                  {PyList(<<>>), PyList(<<EmptyDict>>)}
                  \cup {PyList(<<PyDict("description" :> d)>>) : d \in Descriptions}),
        m \in Opt("main",
                  {EmptyDict,
                   PyDict("temp" :> PyFloat("15.5") @@ "humidity" :> PyInt(80)),
                   PyDict("temp" :> PyFloat("15.5") @@ "feels_like" :> PyFloat("14.0")
                          @@ "humidity" :> PyInt(80))}),
        wi \in Opt("wind", {EmptyDict, PyDict("speed" :> PyFloat("3.2"))}) }

ErrorPayloads ==
    { PyDict(c @@ m) :
        c \in Opt("cod", {PyInt(404), PyStr("404"), PyInt(401), PyStr("200")}),
        m \in Opt("message", {PyStr("city not found"), PyStr("")}) }

\* a body is a JSON document with its decoded value, or no JSON at all
Bodies ==
    {[valid |-> TRUE, value |-> v] :
        v \in SuccessPayloads \cup ErrorPayloads \cup {PyList(<<>>)}}
    \cup {[valid |-> FALSE, value |-> PyStr("<html>502 Bad Gateway</html>")]}

NoResponse == [status |-> 0, body |-> [valid |-> FALSE, value |-> PyNone]]

(***************************************************************************)
(* The state machine.                                                      *)
(***************************************************************************)
Init ==
    /\ location \in Locations
    /\ env_key \in EnvKeys
    /\ importable \in SUBSET Modules
    /\ pc = "import"
    /\ api_key = PyNone
    /\ sent = <<>>
    /\ response = NoResponse
    /\ decoded = FALSE
    /\ data = PyNone
    /\ fields = NoFields
    /\ exc = NoExc
    /\ outcome = "running"
    /\ branch = "none"
    /\ ret = ""

\* a return statement
Return(b, s) ==
    /\ pc' = "done"
    /\ outcome' = "returned"
    /\ branch' = b
    /\ ret' = s

\* an exception raised inside the try block of lines 44-84
Raise(e) ==
    /\ pc' = "except"
    /\ exc' = e
    /\ UNCHANGED <<outcome, branch, ret>>

\* lines 27-34: the imports; an ImportError is raised again, to the caller
Import ==
    /\ pc = "import"
    /\ IF Modules \subseteq importable
       THEN /\ pc' = "getenv"
            /\ UNCHANGED <<exc, outcome>>
       ELSE /\ pc' = "done"
            /\ exc' = Exc("ImportError", ImportMessage)
            /\ outcome' = "raised"
    /\ UNCHANGED <<location, env_key, importable, api_key, sent, response, decoded,
                   data, fields, branch, ret>>

\* lines 37-42: the credential check
GetEnv ==
    /\ pc = "getenv"
    /\ api_key' = env_key
    /\ IF KeyMissing(env_key)
       THEN Return("credential", CredentialMessage)
       ELSE /\ pc' = "get"
            /\ UNCHANGED <<outcome, branch, ret>>
    /\ UNCHANGED <<location, env_key, importable, sent, response, decoded, data,
                   fields, exc>>

\* lines 46-53: the request is issued; the transport fails or a response arrives
Get ==
    /\ pc = "get"
    /\ sent' = Append(sent, Request(location, api_key))
    /\ \/ \E e \in TransportErrors :
             /\ Raise(e)
             /\ UNCHANGED response
       \/ \E st \in StatusCodes, b \in Bodies :
             /\ response' = [status |-> st, body |-> b]
             /\ pc' = "raise_for_status"
             /\ UNCHANGED <<exc, outcome, branch, ret>>
    /\ UNCHANGED <<location, env_key, importable, api_key, decoded, data, fields>>

\* line 54: response.raise_for_status()
RaiseForStatus ==
    /\ pc = "raise_for_status"
    /\ IF StatusError(response.status) # NoExc
       THEN Raise(StatusError(response.status))
       ELSE /\ pc' = "json"
            /\ UNCHANGED <<exc, outcome, branch, ret>>
    /\ UNCHANGED <<location, env_key, importable, api_key, sent, response, decoded,
                   data, fields>>

\* line 55: data = response.json()
Json ==
    /\ pc = "json"
    /\ decoded' = TRUE
    /\ IF response.body.valid
       THEN /\ data' = response.body.value
            /\ pc' = "cod"
            /\ UNCHANGED <<exc, outcome, branch, ret>>
       ELSE /\ \E e \in DecodeErrors : Raise(e)
            /\ UNCHANGED data
    /\ UNCHANGED <<location, env_key, importable, api_key, sent, response, fields>>

\* lines 58-60: the provider's status field
CheckCod ==
    /\ pc = "cod"
    /\ IF data.t # "dict" THEN Raise(NoAttribute(data, "get"))
       ELSE IF IsProviderError(data)
       THEN /\ Return("provider", ProviderMessage(data))
            /\ UNCHANGED exc
       ELSE /\ pc' = "parse"
            /\ UNCHANGED <<exc, outcome, branch, ret>>
    /\ UNCHANGED <<location, env_key, importable, api_key, sent, response, decoded,
                   data, fields>>

\* lines 63-73: the field extraction
Parse ==
    /\ pc = "parse"
    /\ LET r == Extract(data)
       IN  IF r.exc # NoExc
           THEN /\ Raise(r.exc)
                /\ UNCHANGED fields
           ELSE /\ fields' = r.fields
                /\ pc' = "format"
                /\ UNCHANGED <<exc, outcome, branch, ret>>
    /\ UNCHANGED <<location, env_key, importable, api_key, sent, response, decoded,
                   data>>

\* lines 76-84: the report, capped by truncate_content
Format ==
    /\ pc = "format"
    /\ IF fields.description.t # "str"
       THEN Raise(NoAttribute(fields.description, "capitalize"))
       ELSE /\ Return("report", truncate_content(FormatOutput(fields), MAX_LENGTH))
            /\ UNCHANGED exc
    /\ UNCHANGED <<location, env_key, importable, api_key, sent, response, decoded,
                   data, fields>>

\* lines 86-91: the except clauses
Except ==
    /\ pc = "except"
    /\ LET h == Handler(exc)
       IN  /\ ret' = HandlerMessage(h, exc)
           /\ branch' = h
           /\ pc' = AfterHandler(h)
           /\ outcome' = IF AfterHandler(h) = "done" THEN "returned" ELSE "running"
    /\ UNCHANGED <<location, env_key, importable, api_key, sent, response, decoded,
                   data, fields, exc>>

Next ==
    \/ Import
    \/ GetEnv
    \/ Get
    \/ RaiseForStatus
    \/ Json
    \/ CheckCod
    \/ Parse
    \/ Format
    \/ Except

Spec == Init /\ [][Next]_vars

(***************************************************************************)
(* Properties.                                                             *)
(***************************************************************************)
StartsWith(s, prefix) ==
    Len(s) >= Len(prefix) /\ SubSeq(s, 1, Len(prefix)) = prefix

Has(d, k) == d.t = "dict" /\ k \in DOMAIN d.d

\* forward is over and an HTTP response with a 2xx status was decoded to a dict
DecodedDict == pc = "done" /\ decoded /\ data.t = "dict"

CodIsSuccess(d) == Has(d, "cod") /\ d.d["cod"].t = "int" /\ d.d["cod"].n = 200

\* C1: every invocation of forward ends by returning a string; no exception
\* reaches the caller, whatever the environment does (imports included).
C1_NeverRaises == pc = "done" => outcome = "returned"

\* C2: with OPENWEATHER_API_KEY unset or empty, forward returns the
\* credential-missing string and has issued no HTTP request.
C2_MissingCredential ==
    (pc = "done" /\ (env_key = PyNone \/ env_key = PyStr("")))
        => (outcome = "returned" /\ ret = CredentialMessage /\ sent = <<>>)

\* C3: a returned report is at most 10,000 characters long, truncation marker
\* included, and a report of at most 10,000 characters is returned unchanged.
C3_CapEnforced ==
    (pc = "done" /\ branch = "report")
        => /\ Len(ret) <= 10000
           /\ Len(FormatOutput(fields)) <= 10000 => ret = FormatOutput(fields)

\* C4: when the transport raises a timeout, forward returns exactly the fixed
\* timeout message, never the "Error fetching weather data:" form.
C4_TimeoutMessage ==
    (pc = "done" /\ exc.cls \in {"ConnectTimeout", "ReadTimeout"})
        => /\ outcome = "returned"
           /\ ret = "The request timed out. Please try again later."
           /\ ~StartsWith(ret, "Error fetching weather data:")

C4_Witness ==
    /\ pc = "done"
    /\ exc.cls = "ConnectTimeout"
    /\ Len(sent) = 1
    /\ ret = TimeoutMessage

\* C5: a decoded payload whose cod is not 200 is answered with "Error fetching
\* weather data: " and the payload's message (or "Unknown error occurred."),
\* and no report is rendered; a payload whose cod is 200 is never answered as a
\* provider error.
C5_ProviderError ==
    DecodedDict =>
        IF CodIsSuccess(data)
        THEN branch # "provider" /\ ~StartsWith(ret, "Error fetching weather data: ")
        ELSE /\ outcome = "returned"
             /\ branch = "provider"
             /\ fields = NoFields
             /\ ret = "Error fetching weather data: "
                      \o (IF Has(data, "message") THEN Str(data.d["message"])
                          ELSE "Unknown error occurred.")

C5_Witness ==
    /\ DecodedDict
    /\ Has(data, "cod") /\ data.d["cod"] = PyStr("404")
    /\ ret = "Error fetching weather data: city not found"

\* the optional fields of a success payload are present and well typed, absent,
\* or empty
OptionalFieldsAbsentOrEmpty(d) ==
    /\ CodIsSuccess(d)
    /\ Has(d, "weather") =>
          \/ d.d["weather"].l = <<>>
          \/ ~Has(d.d["weather"].l[1], "description")
          \/ d.d["weather"].l[1].d["description"].t = "str"

\* C6: a success payload with any subset of the optional fields absent or
\* empty is answered with the report, never with an error string.
C6_MissingFieldsTolerated ==
    (DecodedDict /\ OptionalFieldsAbsentOrEmpty(data)) => branch = "report"

\* a success payload with every field of the report present and well typed
\* (the country may be missing or empty)
WellFormed(d) ==
    /\ CodIsSuccess(d)
    /\ Has(d, "name") /\ d.d["name"].t = "str"
    /\ Has(d, "sys")
    /\ Has(d.d["sys"], "country") => d.d["sys"].d["country"].t = "str"
    /\ Has(d, "weather") /\ Len(d.d["weather"].l) > 0
    /\ Has(d.d["weather"].l[1], "description")
    /\ d.d["weather"].l[1].d["description"].t = "str"
    /\ Has(d, "main") /\ {"temp", "feels_like", "humidity"} \subseteq DOMAIN d.d["main"].d
    /\ Has(d, "wind") /\ Has(d.d["wind"], "speed")

\* the five-line report of section 6, from the payload
Report(d) ==
    LET sys == d.d["sys"]
        country == IF Has(sys, "country") /\ sys.d["country"].s # ""
                   THEN sys.d["country"].s ELSE "N/A"
    IN  "**Weather in " \o d.d["name"].s \o ", " \o country \o "**\n"
        \o "\n"
        \o "- Description: " \o Capitalize(d.d["weather"].l[1].d["description"].s) \o "\n"
        \o "- Temperature: " \o Str(d.d["main"].d["temp"]) \o "°C (feels like "
            \o Str(d.d["main"].d["feels_like"]) \o "°C)\n"
        \o "- Humidity: " \o Str(d.d["main"].d["humidity"]) \o "%\n"
        \o "- Wind Speed: " \o Str(d.d["wind"].d["speed"]) \o " m/s"

\* C7: for a well-formed success payload (whose report is within the
\* 10,000-character limit) forward returns exactly the five-line report, built
\* from the payload and not from the location argument; for the payload of the
\* London example it is the text of section 8.
C7_ExactReport ==
    (DecodedDict /\ WellFormed(data) /\ Len(Report(data)) <= 10000)
        => /\ outcome = "returned"
           /\ ret = Report(data)
           /\ data = Full("light rain") =>
                ret = "**Weather in London, GB**\n\n- Description: Light rain\n"
                      \o "- Temperature: 15.5°C (feels like 14.0°C)\n"
                      \o "- Humidity: 80%\n- Wind Speed: 3.2 m/s"

C7_Witness ==
    /\ pc = "done"
    /\ location = ""
    /\ data = Full("light rain")
    /\ branch = "report"

C9_UnexpectedError ==
    (pc = "done" /\ decoded /\ exc # NoExc)
        => ret = "An unexpected error occurred: " \o exc.text

\* C10: an invocation issues at most one HTTP request, and a failure ends it:
\* once an exception was handled nothing more runs.
C10_SingleAttempt ==
    /\ Len(sent) <= 1
    /\ (exc # NoExc /\ pc # "except") => pc = "done"

C10_Witness ==
    /\ pc = "done"
    /\ Len(sent) = 1
    /\ branch = "Timeout"
    /\ exc.cls = "ReadTimeout"

====
